---- MODULE Spec2Model ----
(***************************************************************************)
(* DataMan (client, src/client/data-man-api.js) and DataMan.Buffer         *)
(* (server, src/server/data-man-buffer.js) as a state machine.             *)
(*                                                                         *)
(* One program run constructs one instance in one host environment and     *)
(* then issues accessor calls; the browser's XMLHttpRequest and FileReader *)
(* complete later, each by its load or its error handler.  `last` holds    *)
(* what the latest step did, event by event; the history variables keep    *)
(* what the properties need of the steps before it.                        *)
(*                                                                         *)
(* JavaScript strings are sequences of one-character strings, bytes are    *)
(* integers 0..255, an optional value is <<>> (undefined) or <<v>>.        *)
(***************************************************************************)
EXTENDS Integers, Sequences, FiniteSets, TLC

VARIABLES
  env,        \* the host environment: which globals exist
  phase,      \* "new" before the constructor ran, "live" after, "dead" if it threw
  arg,        \* the arguments the constructor was called with
  blob,       \* self.blob
  dataUri,    \* self.dataUri
  url,        \* self.url
  type,       \* self.type   (client)
  _size,      \* self._size
  buffer,     \* self.buffer (server)
  _type,      \* self._type  (server)
  pending,    \* XMLHttpRequests and FileReaders in flight, each with its call
  ncalls,     \* accessor calls issued so far; a call is named by its number
  nranges,    \* of these, getBinary calls that named a byte range
  last,       \* the latest step: the call it belongs to and what happened, in order
  cbCount,    \* history: per call, how often the callback passed to it was invoked
  delivered,  \* history: the Blobs getBlob has passed to a callback
  loads,      \* history: the calls whose XMLHttpRequest loaded, in that order
  sizes,      \* history: the sizes that size() has passed to a callback
  uris        \* history: the strings getDataUri has assigned to self.dataUri

vars == <<env, phase, arg, blob, dataUri, url, type, _size, buffer, _type,
          pending, ncalls, nranges, last, cbCount, delivered, loads, sizes, uris>>

-----------------------------------------------------------------------------
(* Bounds of the model *)

\* accessor calls issued on the instance
MaxCalls == 3
\* of these, getBinary calls that name a byte range
MaxRangeCalls == 1
\* largest start position passed to getBinary
MaxPos == 2
\* XMLHttpRequests and FileReaders in flight when a further call is issued
MaxInFlight == 1

-----------------------------------------------------------------------------
(* Values *)

None == <<>>
Some(x) == <<x>>

NULL == "null"

Min(a, b) == IF a < b THEN a ELSE b
Max(a, b) == IF a > b THEN a ELSE b

VUndef == [t |-> "undefined", v |-> <<>>]
VBlob(b) == [t |-> "blob", v |-> <<b>>]
VBytes(bs) == [t |-> "bytes", v |-> bs]
VInt(n) == [t |-> "int", v |-> <<n>>]
VStr(s) == [t |-> "string", v |-> s]

-----------------------------------------------------------------------------
(* JavaScript string primitives used by the source *)

\* String.prototype.slice(from, to), negative indices counted from the end
StrSlice(s, from, to) ==
  LET n == Len(s)
      f == IF from < 0 THEN Max(n + from, 0) ELSE Min(from, n)
      t == IF to < 0 THEN Max(n + to, 0) ELSE Min(to, n)
  IN IF f >= t THEN <<>> ELSE SubSeq(s, f + 1, t)

\* String.prototype.indexOf(ch): 0-based position of the first ch, or -1
IndexOf(s, ch) ==
  IF \E i \in 1..Len(s) : s[i] = ch
    THEN (CHOOSE i \in 1..Len(s) : s[i] = ch /\ \A j \in 1..(i - 1) : s[j] # ch) - 1
    ELSE -1

\* dataURI.split(',')[1]: the text between the first and the second comma,
\* undefined when there is no comma
SplitComma1(s) ==
  LET i == IndexOf(s, ",")
  IN IF i = -1 THEN None
     ELSE LET rest == SubSeq(s, i + 2, Len(s))
              j == IndexOf(rest, ",")
          IN Some(IF j = -1 THEN rest ELSE SubSeq(rest, 1, j))

B64 == << "A","B","C","D","E","F","G","H","I","J","K","L","M","N","O","P",
          "Q","R","S","T","U","V","W","X","Y","Z","a","b","c","d","e","f",
          "g","h","i","j","k","l","m","n","o","p","q","r","s","t","u","v",
          "w","x","y","z","0","1","2","3","4","5","6","7","8","9","+","/" >>

B64Val(ch) == (CHOOSE i \in 1..64 : B64[i] = ch) - 1
IsB64(ch) == \E i \in 1..64 : B64[i] = ch

RECURSIVE B64Bits(_)
\* the 6-bit values of a base64 text, as one number per character
B64Bits(s) == IF s = <<>> THEN <<>> ELSE <<B64Val(Head(s))>> \o B64Bits(Tail(s))

RECURSIVE B64Bytes(_)
\* groups of four 6-bit values give three bytes; a trailing group of two gives
\* one byte and a trailing group of three gives two (the spare bits are dropped)
B64Bytes(v) ==
  IF Len(v) >= 4
    THEN << (v[1] * 4) + (v[2] \div 16),
            ((v[2] % 16) * 16) + (v[3] \div 4),
            ((v[3] % 4) * 64) + v[4] >> \o B64Bytes(SubSeq(v, 5, Len(v)))
  ELSE IF Len(v) = 3
    THEN << (v[1] * 4) + (v[2] \div 16), ((v[2] % 16) * 16) + (v[3] \div 4) >>
  ELSE IF Len(v) = 2
    THEN << (v[1] * 4) + (v[2] \div 16) >>
  ELSE <<>>

StrUndefined == <<"u","n","d","e","f","i","n","e","d">>

\* window.atob(x): x is converted to a string (undefined gives "undefined"),
\* up to two trailing "=" are removed when the length is a multiple of 4, a
\* length of 1 modulo 4 or a character outside the alphabet throws
atob(x) ==
  LET s0 == IF x = None THEN StrUndefined ELSE x[1]
      n0 == Len(s0)
      s1 == IF n0 > 0 /\ n0 % 4 = 0
              THEN IF n0 >= 2 /\ s0[n0] = "=" /\ s0[n0 - 1] = "="
                     THEN SubSeq(s0, 1, n0 - 2)
                   ELSE IF s0[n0] = "=" THEN SubSeq(s0, 1, n0 - 1)
                   ELSE s0
              ELSE s0
  IN IF Len(s1) % 4 = 1 \/ \E i \in 1..Len(s1) : ~IsB64(s1[i])
       THEN [threw |-> TRUE, bytes |-> <<>>]
       ELSE [threw |-> FALSE, bytes |-> B64Bytes(B64Bits(s1))]

RECURSIVE btoa(_)
\* base64 of a byte sequence, padded with "="
btoa(bs) ==
  IF Len(bs) >= 3
    THEN << B64[(bs[1] \div 4) + 1],
            B64[((bs[1] % 4) * 16) + (bs[2] \div 16) + 1],
            B64[((bs[2] % 16) * 4) + (bs[3] \div 64) + 1],
            B64[(bs[3] % 64) + 1] >> \o btoa(SubSeq(bs, 4, Len(bs)))
  ELSE IF Len(bs) = 2
    THEN << B64[(bs[1] \div 4) + 1],
            B64[((bs[1] % 4) * 16) + (bs[2] \div 16) + 1],
            B64[((bs[2] % 16) * 4) + 1], "=" >>
  ELSE IF Len(bs) = 1
    THEN << B64[(bs[1] \div 4) + 1], B64[((bs[1] % 4) * 16) + 1], "=", "=" >>
  ELSE <<>>

-----------------------------------------------------------------------------
(* Host environments *)

\* what the remote URL serves: the response body and its Content-Type
RemoteBody == <<72, 105, 33>>
RemoteType == <<"r">>

Browser ==
  [server |-> FALSE, File |-> TRUE, Blob |-> TRUE, ArrayBuffer |-> TRUE,
   FileReader |-> TRUE, slice |-> TRUE, window |-> TRUE, saveAs |-> TRUE]

\* a full browser; a browser with Blobs but neither FileReader, Blob slicing
\* nor a window.saveAs; a host with Blobs and no window; a browser without
\* Blobs; the server
Envs ==
  { Browser,
    [Browser EXCEPT !.FileReader = FALSE, !.slice = FALSE, !.saveAs = FALSE],
    [Browser EXCEPT !.FileReader = FALSE, !.slice = FALSE, !.window = FALSE,
                    !.saveAs = FALSE],
    [Browser EXCEPT !.File = FALSE, !.Blob = FALSE, !.FileReader = FALSE,
                    !.slice = FALSE, !.saveAs = FALSE],
    [Browser EXCEPT !.server = TRUE, !.File = FALSE, !.Blob = FALSE,
                    !.FileReader = FALSE, !.slice = FALSE, !.window = FALSE,
                    !.saveAs = FALSE] }

-----------------------------------------------------------------------------
(* Blobs *)

UpperCase == << "A","B","C","D","E","F","G","H","I","J","K","L","M",
                "N","O","P","Q","R","S","T","U","V","W","X","Y","Z" >>
LowerCase == << "a","b","c","d","e","f","g","h","i","j","k","l","m",
                "n","o","p","q","r","s","t","u","v","w","x","y","z" >>

ToLower(ch) ==
  IF \E i \in 1..26 : UpperCase[i] = ch
    THEN LowerCase[CHOOSE i \in 1..26 : UpperCase[i] = ch]
    ELSE ch

\* new Blob([bytes], {type: t}): an undefined type is "", a given one is
\* stored in lower case
NewBlob(id, bytes, t) ==
  [id |-> id, bytes |-> bytes,
   type |-> IF t = None THEN <<>> ELSE [i \in 1..Len(t[1]) |-> ToLower(t[1][i])]]

\* blob.slice(start, end, contentType): negative positions count from the end,
\* both are clamped to the size, an empty span gives an empty blob
BlobSlice(b, id, start, end, t) ==
  LET n == Len(b.bytes)
      rs == IF start < 0 THEN Max(n + start, 0) ELSE Min(start, n)
      re == IF end < 0 THEN Max(n + end, 0) ELSE Min(end, n)
      span == Max(re - rs, 0)
  IN NewBlob(id, SubSeq(b.bytes, rs + 1, rs + span), t)

-----------------------------------------------------------------------------
(* The constructor's inputs *)

StrDataAB    == <<"d","a","t","a",":","a",";","b","a","s","e","6","4",",","Q","U","I","=">>
StrDataNoSem == <<"d","a","t","a",":",",","Q","Q">>
StrDataNoCom == <<"d","a","t","a",":","a",";","b">>
StrHttp      == <<"h","t","t","p",":","/","/","h">>
StrHttps     == <<"h","t","t","p","s",":","/","/","h">>
StrHttpx     == <<"h","t","t","p","s","/","h">>
StrFtp       == <<"f","t","p",":","/","/","h">>

Data(kind, bytes, btype, str) ==
  [kind |-> kind, bytes |-> bytes, btype |-> btype, str |-> str]

\* the type argument: omitted, or a MIME type (one in upper case too)
Hints == {None, Some(<<"t">>), Some(<<"T">>)}
HintT == Some(<<"t">>)

\* values a caller may pass as data to new DataMan(data, type); a File or a
\* Blob can only be passed where the host has them
CtorData(e) ==
  (IF e.File THEN {Data("File", <<10, 20, 30>>, <<"f">>, <<>>)} ELSE {})
  \cup
  (IF e.Blob THEN {Data("Blob", <<>>, <<>>, <<>>),
                   Data("Blob", <<10, 20>>, <<"b">>, <<>>)} ELSE {})
  \cup
  { Data("ArrayBuffer", <<10, 20, 30>>, <<>>, <<>>),
    Data("Uint8Array", <<72, 105>>, <<>>, <<>>),
    Data("number", <<>>, <<>>, <<>>),
    Data("undefined", <<>>, <<>>, <<>>),
    Data("object", <<>>, <<>>, <<>>) }
  \cup
  { Data("string", <<>>, <<>>, str) :
      str \in {StrDataAB, StrDataNoSem, StrDataNoCom, StrHttp, StrHttps, StrHttpx,
               StrFtp, <<>>, <<"d","a","t","a">>, <<"d","a","t","a",":">>} }

\* every (data, type) pair the constructor is tried on
CtorArgs(e) == CtorData(e) \X Hints

\* the (data, type) pairs of the instances the accessors are run on: one per
\* kind of source, the data URIs both decodable and not
LiveArgs(e) ==
  { <<Data("ArrayBuffer", <<10, 20, 30>>, <<>>, <<>>), HintT>>,
    <<Data("string", <<>>, <<>>, StrDataAB), None>>,
    <<Data("string", <<>>, <<>>, StrDataNoCom), None>>,
    <<Data("string", <<>>, <<>>, StrHttp), HintT>> }
  \cup
  (IF e.Blob THEN {<<Data("Blob", <<>>, <<>>, <<>>), None>>} ELSE {})

\* base64 data URIs of the bytes 65, 66: the type in upper case, the padding
\* left out, a parameter after the type
StrDataUpper == <<"d","a","t","a",":","A",";","b","a","s","e","6","4",",","Q","U","I","=">>
StrDataNoPad == <<"d","a","t","a",":","a",";","b","a","s","e","6","4",",","Q","U","I">>
StrDataParam == <<"d","a","t","a",":","a",";","c","=","u",";","b","a","s","e","6","4",",","Q","U","I","=">>

\* the (data, type) pairs of the instances made from data URIs, and one made
\* from a Blob and one from a URL
UriArgs(e) ==
  { <<Data("string", <<>>, <<>>, str), None>> :
      str \in {StrDataAB, StrDataUpper, StrDataNoPad, StrDataParam} }
  \cup { <<Data("string", <<>>, <<>>, StrHttp), HintT>> }
  \cup (IF e.Blob THEN {<<Data("Blob", <<10, 20>>, <<"b">>, <<>>), None>>} ELSE {})

\* (buffer, type) pairs passed to new DataMan.Buffer(buffer, type)
BufferArgs ==
  { <<<<72, 101, 108, 108, 111>>, HintT>>,
    <<<<72, 105>>, None>>,
    <<<<72, 105>>, Some(<<>>)>>,
    <<<<>>, HintT>> }

-----------------------------------------------------------------------------
(* Errors, by the message the source gives them *)

ErrNoBlob       == "Browser must support Blobs to handle an ArrayBuffer or Uint8Array"
ErrUnrecognized == "DataMan constructor received unrecognized data string"
ErrUnsupported  == "DataMan constructor received data that it doesn't support"
ErrNoFileReader == "Browser does not support FileReader"
ErrRange        == "DataMan.getBinary: start position beyond end of data"
ErrNoSlice      == "Browser does not support File.slice"
ErrNoWindow     == "window must be defined to use saveLocal"
ErrNoCallback   == "getDataUri requires callback function"
ErrSizeCallback == "On the client, DataMan.size requires a callback"
ErrNoType       == "DataMan.getDataUri couldn't get a contentType"
\* thrown or raised by the host, not by the source
ErrAtob         == "InvalidCharacterError"
ErrXhr          == "xhr error event"
ErrReader       == "FileReader error event"
ErrNotFunction  == "TypeError: window.saveAs is not a function"

-----------------------------------------------------------------------------
(* new DataMan(data, type) *)

Fields(b, d, u, t) == [threw |-> None, blob |-> b, dataUri |-> d, url |-> u, type |-> t]
Throws(err) == [threw |-> Some(err), blob |-> None, dataUri |-> None, url |-> None,
                type |-> None]

\* DataManCtor as it would be if a URL were recognised by "http" alone
DataManCtorLooseUrl(e, data, hint) ==
  IF e.File /\ data.kind = "File"
    THEN Fields(Some([id |-> <<"data", 0>>, bytes |-> data.bytes, type |-> data.btype]),
                None, None, Some(data.btype))
  ELSE IF e.Blob /\ data.kind \in {"File", "Blob"}
    THEN Fields(Some([id |-> <<"data", 0>>, bytes |-> data.bytes, type |-> data.btype]),
                None, None, Some(data.btype))
  ELSE IF (e.ArrayBuffer /\ data.kind = "ArrayBuffer") \/ data.kind = "Uint8Array"
    THEN IF ~e.Blob
           THEN Throws(ErrNoBlob)
           ELSE Fields(Some(NewBlob(<<"new", 0>>, data.bytes, hint)), None, None, hint)
  ELSE IF data.kind = "string"
    THEN IF StrSlice(data.str, 0, 5) = <<"d","a","t","a",":">>
           THEN Fields(None, Some(data.str), None,
                       Some(StrSlice(data.str, 5, IndexOf(data.str, ";"))))
         ELSE IF StrSlice(data.str, 0, 4) = <<"h","t","t","p">>
           THEN Fields(None, None, Some(data.str), hint)
         ELSE Throws(ErrUnrecognized)
  ELSE Throws(ErrUnsupported)

DataManCtor(e, data, hint) ==
  IF e.File /\ data.kind = "File"
    THEN Fields(Some([id |-> <<"data", 0>>, bytes |-> data.bytes, type |-> data.btype]),
                None, None, Some(data.btype))
  ELSE IF e.Blob /\ data.kind \in {"File", "Blob"}
    THEN Fields(Some([id |-> <<"data", 0>>, bytes |-> data.bytes, type |-> data.btype]),
                None, None, Some(data.btype))
  ELSE IF (e.ArrayBuffer /\ data.kind = "ArrayBuffer") \/ data.kind = "Uint8Array"
    THEN IF ~e.Blob
           THEN Throws(ErrNoBlob)
           ELSE Fields(Some(NewBlob(<<"new", 0>>, data.bytes, hint)), None, None, hint)
  ELSE IF data.kind = "string"
    THEN IF StrSlice(data.str, 0, 5) = <<"d","a","t","a",":">>
           THEN Fields(None, Some(data.str), None,
                       Some(StrSlice(data.str, 5, IndexOf(data.str, ";"))))
         ELSE IF StrSlice(data.str, 0, 5) = <<"h","t","t","p",":">>
                 \/ StrSlice(data.str, 0, 6) = <<"h","t","t","p","s",":">>
           THEN Fields(None, None, Some(data.str), hint)
         ELSE Throws(ErrUnrecognized)
  ELSE Throws(ErrUnsupported)

\* new DataMan.Buffer(buffer, type)
DataManBuffer(buf, hint) == [buffer |-> Some(buf), _type |-> hint]

-----------------------------------------------------------------------------
(* Events *)

\* one thing that happened: k says what, c is the call it belongs to, e the
\* error (NULL for none), r the value, sync whether it happened before the
\* accessor call returned
Ev(k, c, e, r, sync) == [k |-> k, c |-> c, e |-> e, r |-> r, sync |-> sync]

-----------------------------------------------------------------------------
(* Accessor calls *)

\* one accessor call: s and e are the JavaScript types of the first two
\* arguments of getBinary, cb tells whether a callback argument was passed,
\* name is the filename given to saveAs
Call(op, s, start, e, end, cb, name) ==
  [op |-> op, s |-> s, start |-> start, e |-> e, end |-> end, cb |-> cb, name |-> name]

SimpleCall(op, cb) == Call(op, "undefined", 0, "undefined", 0, cb, None)

\* getBinary(callback), getBinary(), getBinary(start, end, callback) and
\* getBinary(start, end)
GetBinaryWhole == { Call("getBinary", "function", 0, "undefined", 0, FALSE, None),
                    SimpleCall("getBinary", FALSE) }
\* one byte range, for the runs that mix getBinary with the other accessors
GetBinaryOne == { Call("getBinary", "number", 1, "number", 2, TRUE, None) }
GetBinaryRange ==
  { Call("getBinary", "number", st, "number", en, TRUE, None) :
      st \in 0..MaxPos, en \in (0 - 1)..(MaxPos + 1) }

\* getBinary's callback: the first argument when it is a function, else the
\* third, else defaultCallback
HasCallback(call) == call.s = "function" \/ call.cb

\* defaultCallback(err): throws err unless it is a Meteor.Error, which none of
\* the errors that reach it is
defaultCallback(c, err, sync) ==
  IF err # NULL THEN <<Ev("throw", c, err, VUndef, sync)>> ELSE <<>>

\* callback(err, res) inside getBinary
Callback(c, call, err, res, sync) ==
  IF HasCallback(call) THEN <<Ev("cb", c, err, res, sync)>>
  ELSE defaultCallback(c, err, sync)

Step(ev, sz, pend) == [ev |-> ev, size |-> sz, pend |-> pend]

\* read(blob) inside getBinary
read(c, call, b, sync) ==
  IF ~env.FileReader
    THEN Step(Callback(c, call, ErrNoFileReader, VUndef, sync), _size, {})
    ELSE Step(<<Ev("readAsArrayBuffer", c, NULL, VBlob(b), sync)>>, _size,
              {[c |-> c, call |-> call, prim |-> "readAsArrayBuffer", b |-> Some(b)]})

\* GetBinaryCont as it would be without the return after the range error
GetBinaryContNoReturn(c, call, err, b, sync) ==
  IF err # NULL
    THEN Step(Callback(c, call, err, VUndef, sync), _size, {})
  ELSE IF call.s = "number" /\ call.e = "number"
    THEN LET size == Len(b.bytes)
             end == Min(size, call.end)
             piece == BlobSlice(b, <<"slice", c>>, call.start, end, type)
             r == read(c, call, piece, sync)
         IN Step((IF call.start >= size
                    THEN Callback(c, call, ErrRange, VUndef, sync) ELSE <<>>)
                 \o <<Ev("slice", c, NULL, VBlob(piece), sync)>> \o r.ev,
                 r.size, r.pend)
  ELSE read(c, call, b, sync)

\* GetBinaryCont as it would be with start > size as the range check
GetBinaryContOffByOne(c, call, err, b, sync) ==
  IF err # NULL
    THEN Step(Callback(c, call, err, VUndef, sync), _size, {})
  ELSE IF call.s = "number" /\ call.e = "number"
    THEN LET size == Len(b.bytes)
             end == Min(size, call.end)
         IN IF call.start > size
              THEN Step(Callback(c, call, ErrRange, VUndef, sync), _size, {})
            ELSE LET piece == BlobSlice(b, <<"slice", c>>, call.start, end, type)
                     r == read(c, call, piece, sync)
                 IN Step(<<Ev("slice", c, NULL, VBlob(piece), sync)>> \o r.ev,
                         r.size, r.pend)
  ELSE read(c, call, b, sync)

\* GetBinaryCont as it would be if end were taken as the last byte to read
GetBinaryContInclusive(c, call, err, b, sync) ==
  IF err # NULL
    THEN Step(Callback(c, call, err, VUndef, sync), _size, {})
  ELSE IF call.s = "number" /\ call.e = "number"
    THEN LET size == Len(b.bytes)
             end == Min(size, call.end + 1)
         IN IF call.start >= size
              THEN Step(Callback(c, call, ErrRange, VUndef, sync), _size, {})
            ELSE LET piece == BlobSlice(b, <<"slice", c>>, call.start, end, type)
                     r == read(c, call, piece, sync)
                 IN Step(<<Ev("slice", c, NULL, VBlob(piece), sync)>> \o r.ev,
                         r.size, r.pend)
  ELSE read(c, call, b, sync)

\* the function getBinary passes to getBlob
GetBinaryCont(c, call, err, b, sync) ==
  IF err # NULL
    THEN Step(Callback(c, call, err, VUndef, sync), _size, {})
  ELSE IF call.s = "number" /\ call.e = "number"
    THEN LET size == Len(b.bytes)
             end == Min(size, call.end)
         IN IF call.start >= size
              THEN Step(Callback(c, call, ErrRange, VUndef, sync), _size, {})
            ELSE IF ~env.slice
              THEN Step(Callback(c, call, ErrNoSlice, VUndef, sync), _size, {})
            ELSE LET piece == BlobSlice(b, <<"slice", c>>, call.start, end, type)
                     r == read(c, call, piece, sync)
                 IN Step(<<Ev("slice", c, NULL, VBlob(piece), sync)>> \o r.ev,
                         r.size, r.pend)
  ELSE read(c, call, b, sync)

\* the function saveAs passes to getBlob
SaveAsCont(c, call, err, b, sync) ==
  IF err # NULL
    THEN Step(<<Ev("throw", c, err, VUndef, sync)>>, _size, {})
  ELSE IF ~env.saveAs
    THEN Step(<<Ev("throw", c, ErrNotFunction, VUndef, sync)>>, _size, {})
  ELSE Step(<<Ev("window.saveAs", c, NULL,
                 [t |-> "saveAs", v |-> <<b, call.name>>], sync)>>, _size, {})

\* the function getDataUri passes to getBlob
GetDataUriCont(c, call, err, b, sync) ==
  IF err # NULL
    THEN Step(<<Ev("cb", c, err, VUndef, sync)>>, _size, {})
    ELSE Step(<<Ev("readAsDataURL", c, NULL, VBlob(b), sync)>>, _size,
              {[c |-> c, call |-> call, prim |-> "readAsDataURL", b |-> Some(b)]})

\* the function size passes to getBlob
SizeCont(c, call, err, b, sync) ==
  IF err # NULL
    THEN Step(<<Ev("cb", c, err, VUndef, sync)>>, _size, {})
    ELSE Step(<<Ev("cb", c, NULL, VInt(Len(b.bytes)), sync)>>, Some(Len(b.bytes)), {})

\* what getBlob's callback does, by the accessor that passed it; a direct
\* getBlob call passes the user's callback
AfterBlob(c, call, err, b, sync) ==
  LET k == CASE call.op = "getBinary" -> GetBinaryCont(c, call, err, b, sync)
             [] call.op = "saveAs" -> SaveAsCont(c, call, err, b, sync)
             [] call.op = "getDataUri" -> GetDataUriCont(c, call, err, b, sync)
             [] call.op = "size" -> SizeCont(c, call, err, b, sync)
             [] OTHER -> Step(<<Ev("cb", c, err,
                                   IF err = NULL THEN VBlob(b) ELSE VUndef, sync)>>,
                              _size, {})
  IN Step(<<Ev("getBlob.callback", c, err,
               IF err = NULL THEN VBlob(b) ELSE VUndef, sync)>> \o k.ev,
          k.size, k.pend)

NoBlob == [id |-> <<"none", 0>>, bytes |-> <<>>, type |-> <<>>]

\* dataURItoBlob as it would be if the Blob were made without the type
dataURItoBlobNoType(c, dataURI, dataTYPE) ==
  LET str == atob(SplitComma1(dataURI))
  IN IF str.threw THEN [threw |-> TRUE, blob |-> NoBlob]
     ELSE [threw |-> FALSE, blob |-> NewBlob(<<"dataURItoBlob", c>>, str.bytes, None)]

\* dataURItoBlob as it would be if the loop stopped one character early
dataURItoBlobShort(c, dataURI, dataTYPE) ==
  LET str == atob(SplitComma1(dataURI))
  IN IF str.threw THEN [threw |-> TRUE, blob |-> NoBlob]
     ELSE [threw |-> FALSE,
           blob |-> NewBlob(<<"dataURItoBlob", c>>,
                            SubSeq(str.bytes, 1, Len(str.bytes) - 1), dataTYPE)]

\* dataURItoBlob(dataURI, dataTYPE)
dataURItoBlob(c, dataURI, dataTYPE) ==
  LET str == atob(SplitComma1(dataURI))
  IN IF str.threw THEN [threw |-> TRUE, blob |-> NoBlob]
     ELSE [threw |-> FALSE, blob |-> NewBlob(<<"dataURItoBlob", c>>, str.bytes, dataTYPE)]

BStep(b, k) == [ev |-> k.ev, blob |-> b, size |-> k.size, pend |-> k.pend]

EnterGetBlob(c) == <<Ev("getBlob", c, NULL, VUndef, TRUE)>>

\* getBlob, self.blob set: callback(null, self.blob)
getBlobCached(c, call) ==
  LET k == AfterBlob(c, call, NULL, blob[1], TRUE)
  IN BStep(blob, Step(EnterGetBlob(c) \o k.ev, k.size, k.pend))

\* getBlob, self.dataUri set: self.blob = dataURItoBlob(...), then the callback
getBlobDecode(c, call) ==
  LET d == dataURItoBlob(c, dataUri[1], type)
      dec == <<Ev("dataURItoBlob", c, NULL, VUndef, TRUE)>>
  IN IF d.threw
       THEN BStep(blob, Step(EnterGetBlob(c) \o dec \o
                               <<Ev("throw", c, ErrAtob, VUndef, TRUE)>>, _size, {}))
       ELSE LET k == AfterBlob(c, call, NULL, d.blob, TRUE)
            IN BStep(Some(d.blob), Step(EnterGetBlob(c) \o dec \o k.ev, k.size, k.pend))

\* getBlob, self.url set: a new XMLHttpRequest is sent
getBlobFetch(c, call) ==
  BStep(blob, Step(EnterGetBlob(c) \o <<Ev("xhr.send", c, NULL, VUndef, TRUE)>>, _size,
                   {[c |-> c, call |-> call, prim |-> "xhr", b |-> None]}))

\* getBlob as it would be if a URL instance never looked at self.blob
getBlobRefetch(c, call) ==
  IF url # None /\ url[1] # <<>> THEN getBlobFetch(c, call)
  ELSE IF blob # None THEN getBlobCached(c, call)
  ELSE IF dataUri # None /\ dataUri[1] # <<>> THEN getBlobDecode(c, call)
  ELSE BStep(blob, Step(EnterGetBlob(c), _size, {}))

\* self.getBlob(callback), up to its return
getBlob(c, call) ==
  IF blob # None THEN getBlobCached(c, call)
  ELSE IF dataUri # None /\ dataUri[1] # <<>> THEN getBlobDecode(c, call)
  ELSE IF url # None /\ url[1] # <<>> THEN getBlobFetch(c, call)
  ELSE BStep(blob, Step(EnterGetBlob(c), _size, {}))

\* Enter as it would be if saveAs did not look for window
EnterNoWindowCheck(c, call) ==
  CASE call.op = "getDataUri" /\ ~call.cb ->
         BStep(blob, Step(<<Ev("throw", c, ErrNoCallback, VUndef, TRUE)>>, _size, {}))
    [] call.op = "getDataUri" /\ call.cb /\ ~env.FileReader ->
         BStep(blob, Step(<<Ev("cb", c, ErrNoFileReader, VUndef, TRUE)>>, _size, {}))
    [] call.op = "size" /\ ~call.cb ->
         BStep(blob, Step(<<Ev("throw", c, ErrSizeCallback, VUndef, TRUE)>>, _size, {}))
    [] call.op = "size" /\ call.cb /\ _size # None ->
         BStep(blob, Step(<<Ev("return", c, NULL, VInt(_size[1]), TRUE)>>, _size, {}))
    [] OTHER -> getBlob(c, call)

\* an accessor call, up to its return: what it checks before it calls getBlob
Enter(c, call) ==
  CASE call.op = "saveAs" /\ ~env.window ->
         BStep(blob, Step(<<Ev("throw", c, ErrNoWindow, VUndef, TRUE)>>, _size, {}))
    [] call.op = "getDataUri" /\ ~call.cb ->
         BStep(blob, Step(<<Ev("throw", c, ErrNoCallback, VUndef, TRUE)>>, _size, {}))
    [] call.op = "getDataUri" /\ call.cb /\ ~env.FileReader ->
         BStep(blob, Step(<<Ev("cb", c, ErrNoFileReader, VUndef, TRUE)>>, _size, {}))
    [] call.op = "size" /\ ~call.cb ->
         BStep(blob, Step(<<Ev("throw", c, ErrSizeCallback, VUndef, TRUE)>>, _size, {}))
    [] call.op = "size" /\ call.cb /\ _size # None ->
         BStep(blob, Step(<<Ev("return", c, NULL, VInt(_size[1]), TRUE)>>, _size, {}))
    [] OTHER -> getBlob(c, call)

NoCall == SimpleCall("none", FALSE)

Init ==
  /\ env \in Envs
  /\ phase = "new"
  /\ arg = None
  /\ blob = None /\ dataUri = None /\ url = None /\ type = None /\ _size = None
  /\ buffer = None /\ _type = None
  /\ pending = {}
  /\ ncalls = 0 /\ nranges = 0
  /\ last = [c |-> 0, call |-> NoCall, ev |-> <<>>]
  /\ cbCount = <<>>
  /\ delivered = {}
  /\ loads = <<>>
  /\ sizes = {}
  /\ uris = {}

ConstructFrom(args) ==
  /\ phase = "new" /\ ~env.server
  /\ \E a \in args :
       LET r == DataManCtor(env, a[1], a[2])
       IN /\ arg' = Some(a)
          /\ phase' = IF r.threw = None THEN "live" ELSE "dead"
          /\ blob' = r.blob /\ dataUri' = r.dataUri /\ url' = r.url /\ type' = r.type
          /\ last' = [c |-> 0, call |-> SimpleCall("DataMan", FALSE),
                      ev |-> IF r.threw = None THEN <<>>
                             ELSE <<Ev("throw", 0, r.threw[1], VUndef, TRUE)>>]
  /\ UNCHANGED <<env, _size, buffer, _type, pending, ncalls, nranges, cbCount,
                 delivered, loads, sizes, uris>>

\* new DataMan(data, type) for an instance the accessors are then called on
Construct == ConstructFrom(LiveArgs(env))

\* new DataMan(data, type) on any input
ConstructAny == ConstructFrom(CtorArgs(env))

ConstructBuffer ==
  /\ phase = "new" /\ env.server
  /\ \E a \in BufferArgs :
       LET r == DataManBuffer(a[1], a[2])
       IN /\ arg' = Some(a)
          /\ buffer' = r.buffer /\ _type' = r._type
  /\ phase' = "live"
  /\ last' = [c |-> 0, call |-> SimpleCall("DataMan.Buffer", FALSE), ev |-> <<>>]
  /\ UNCHANGED <<env, blob, dataUri, url, type, _size, pending, ncalls, nranges,
                 cbCount, delivered, loads, sizes, uris>>

\* the history after the events ev of call c
Count(ev, k) == Cardinality({i \in 1..Len(ev) : ev[i].k = k})

Record(c, call, ev) ==
  /\ last' = [c |-> c, call |-> call, ev |-> ev]
  /\ cbCount' = [i \in 1..Max(c, Len(cbCount)) |->
                   (IF i <= Len(cbCount) THEN cbCount[i] ELSE 0)
                   + (IF i = c THEN Count(ev, "cb") ELSE 0)]
  /\ delivered' = delivered \cup
       {ev[i].r.v[1].id : i \in {j \in 1..Len(ev) :
                                   ev[j].k = "getBlob.callback" /\ ev[j].e = NULL}}
  /\ loads' = IF Count(ev, "xhr.onload") > 0 THEN Append(loads, c) ELSE loads
  /\ sizes' = sizes \cup
       {ev[i].r.v[1] : i \in {j \in 1..Len(ev) :
                                \/ /\ ev[j].k = "cb" /\ ev[j].e = NULL
                                   /\ call.op \in {"size", "Buffer.size"}}}
  /\ uris' = uris \cup
       {ev[i].r.v : i \in {j \in 1..Len(ev) : ev[j].k = "fileReader.onload"}}
       \cup {ev[i + 1].r.v : i \in {j \in 1..(Len(ev) - 1) : ev[j].k = "toString.base64"}}

\* The accessors are modelled where the host has Blobs: without them the
\* constructor accepts only strings and getBlob has nothing to hand out.
Issue(call) ==
  LET c == ncalls + 1
      st == Enter(c, call)
  IN /\ phase = "live" /\ ~env.server /\ env.Blob /\ ncalls < MaxCalls
     /\ Cardinality(pending) <= MaxInFlight
     /\ ncalls' = c
     /\ Record(c, call, <<Ev("call", c, NULL, VUndef, TRUE)>> \o st.ev)
     /\ blob' = st.blob
     /\ _size' = st.size
     /\ pending' = pending \cup st.pend
     /\ UNCHANGED <<env, phase, arg, dataUri, url, type, buffer, _type>>

CallGetBlob == Issue(SimpleCall("getBlob", TRUE)) /\ UNCHANGED nranges

CallGetBinary ==
  (\E call \in GetBinaryWhole \cup GetBinaryOne : Issue(call)) /\ UNCHANGED nranges

CallGetBinaryRange ==
  /\ nranges < MaxRangeCalls
  /\ nranges' = nranges + 1
  /\ \E call \in GetBinaryRange : Issue(call)

CallSaveAs ==
  \E name \in {Some(<<"f">>)} :
    Issue(Call("saveAs", "undefined", 0, "undefined", 0, FALSE, name))
    /\ UNCHANGED nranges

CallGetDataUri == Issue(SimpleCall("getDataUri", TRUE)) /\ UNCHANGED nranges

CallSize == Issue(SimpleCall("size", TRUE)) /\ UNCHANGED nranges

\* getDataUri() and size() without a callback: the call throws before it
\* reads or writes anything of the instance, and is not counted as a call
CallWithoutCallback ==
  /\ phase = "live" /\ ~env.server /\ env.Blob /\ ncalls < MaxCalls
  /\ \E op \in {"getDataUri", "size"} :
       LET c == ncalls + 1
           call == SimpleCall(op, FALSE)
           st == Enter(c, call)
       IN /\ last' = [c |-> c, call |-> call,
                      ev |-> <<Ev("call", c, NULL, VUndef, TRUE)>> \o st.ev]
          /\ blob' = st.blob /\ _size' = st.size /\ pending' = pending \cup st.pend
  /\ UNCHANGED <<env, phase, arg, dataUri, url, type, buffer, _type, ncalls, nranges,
                 cbCount, delivered, loads, sizes, uris>>

-----------------------------------------------------------------------------
(* Completions of what the host runs in the background *)

\* a finished handler: its events, the fields it assigned, what it started
Finish(p, ev, k, b, d) ==
  /\ Record(p.c, p.call, ev \o k.ev)
  /\ pending' = (pending \ {p}) \cup k.pend
  /\ _size' = k.size
  /\ blob' = b
  /\ dataUri' = d
  /\ UNCHANGED <<env, phase, arg, url, type, buffer, _type, ncalls, nranges>>

\* Response as it would be if the URL served each request a different body
ResponseChanging(c) ==
  [id |-> <<"xhr", c>>, bytes |-> SubSeq(RemoteBody, 1, Min(c, Len(RemoteBody))),
   type |-> RemoteType]

\* the body the URL serves, as a Blob of its own
Response(c) == [id |-> <<"xhr", c>>, bytes |-> RemoteBody, type |-> RemoteType]

\* XhrLoad as it would be if a response never replaced a cached Blob
XhrLoadKeepFirst ==
  \E p \in pending :
    /\ p.prim = "xhr"
    /\ LET b == IF blob # None THEN blob[1] ELSE Response(p.c)
       IN Finish(p, <<Ev("xhr.onload", p.c, NULL, VBlob(Response(p.c)), FALSE)>>,
                 AfterBlob(p.c, p.call, NULL, b, FALSE), Some(b), dataUri)

\* XhrLoad as it would be if the handler took the type from the response
XhrLoadSetsType ==
  \E p \in pending :
    /\ p.prim = "xhr"
    /\ LET k == AfterBlob(p.c, p.call, NULL, Response(p.c), FALSE)
       IN /\ Record(p.c, p.call,
                    <<Ev("xhr.onload", p.c, NULL, VBlob(Response(p.c)), FALSE)>> \o k.ev)
          /\ pending' = (pending \ {p}) \cup k.pend
          /\ _size' = k.size
    /\ blob' = Some(Response(p.c))
    /\ type' = Some(Response(p.c).type)
    /\ UNCHANGED <<env, phase, arg, dataUri, url, buffer, _type, ncalls, nranges>>

\* xhr.onload of the request getBlob sent
XhrLoad ==
  \E p \in pending :
    /\ p.prim = "xhr"
    /\ LET b == Response(p.c)
       IN Finish(p, <<Ev("xhr.onload", p.c, NULL, VBlob(b), FALSE)>>,
                 AfterBlob(p.c, p.call, NULL, b, FALSE), Some(b), dataUri)

\* XhrError as it would be if the handler dropped the error
XhrErrorDropped ==
  \E p \in pending :
    /\ p.prim = "xhr"
    /\ Finish(p, <<Ev("xhr.onerror", p.c, ErrXhr, VUndef, FALSE)>>,
              Step(<<>>, _size, {}), blob, dataUri)

\* xhr.onerror of the request getBlob sent
XhrError ==
  \E p \in pending :
    /\ p.prim = "xhr"
    /\ Finish(p, <<Ev("xhr.onerror", p.c, ErrXhr, VUndef, FALSE)>>,
              AfterBlob(p.c, p.call, ErrXhr, NoBlob, FALSE), blob, dataUri)

\* the result of FileReader.readAsDataURL(b)
DataURL(b) ==
  <<"d","a","t","a",":">> \o b.type \o <<";","b","a","s","e","6","4",",">> \o btoa(b.bytes)

\* reader.onload in getBinary
ReaderLoad ==
  \E p \in pending :
    /\ p.prim = "readAsArrayBuffer"
    /\ Finish(p, <<Ev("reader.onload", p.c, NULL, VBytes(p.b[1].bytes), FALSE)>>,
              Step(Callback(p.c, p.call, NULL, VBytes(p.b[1].bytes), FALSE),
                   _size, {}),
              blob, dataUri)

\* reader.onerror in getBinary
ReaderError ==
  \E p \in pending :
    /\ p.prim = "readAsArrayBuffer"
    /\ Finish(p, <<Ev("reader.onerror", p.c, ErrReader, VUndef, FALSE)>>,
              Step(Callback(p.c, p.call, ErrReader, VUndef, FALSE), _size, {}),
              blob, dataUri)

\* fileReader.onload in getDataUri
FileReaderLoad ==
  \E p \in pending :
    /\ p.prim = "readAsDataURL"
    /\ LET res == DataURL(p.b[1])
       IN Finish(p, <<Ev("fileReader.onload", p.c, NULL, VStr(res), FALSE)>>,
                 Step(<<Ev("cb", p.c, NULL, VStr(res), FALSE)>>, _size, {}),
                 blob, Some(res))

\* fileReader.onerror in getDataUri
FileReaderError ==
  \E p \in pending :
    /\ p.prim = "readAsDataURL"
    /\ Finish(p, <<Ev("fileReader.onerror", p.c, ErrReader, VUndef, FALSE)>>,
              Step(<<Ev("cb", p.c, ErrReader, VUndef, FALSE)>>, _size, {}),
              blob, dataUri)

-----------------------------------------------------------------------------
(* DataMan.Buffer: every accessor returns before anything else runs *)

IssueBuffer(call, ev, d, sz) ==
  LET c == ncalls + 1
  IN /\ phase = "live" /\ env.server /\ ncalls < MaxCalls
     /\ ncalls' = c
     /\ Record(c, call, <<Ev("call", c, NULL, VUndef, TRUE)>> \o ev)
     /\ dataUri' = d
     /\ _size' = sz
     /\ UNCHANGED <<env, phase, arg, blob, url, type, buffer, _type, pending, nranges>>

\* DataMan.Buffer.prototype.getBuffer
BufferGetBuffer ==
  IssueBuffer(SimpleCall("Buffer.getBuffer", TRUE),
              <<Ev("cb", ncalls + 1, NULL, VBytes(buffer[1]), TRUE)>>, dataUri, _size)

\* "data:" + self._type + ";base64," + self.buffer.toString("base64")
BufferDataUri(t, buf) ==
  <<"d","a","t","a",":">> \o t \o <<";","b","a","s","e","6","4",",">> \o btoa(buf)

\* BufferGetDataUri as it would be if the string were not kept in self.dataUri
BufferGetDataUriNoCache ==
  LET c == ncalls + 1
      call == SimpleCall("Buffer.getDataUri", TRUE)
  IN IF dataUri # None /\ dataUri[1] # <<>>
       THEN IssueBuffer(call, <<Ev("cb", c, NULL, VStr(dataUri[1]), TRUE)>>,
                        dataUri, _size)
     ELSE IF _type = None \/ _type = Some(<<>>)
       THEN IssueBuffer(call, <<Ev("cb", c, ErrNoType, VUndef, TRUE)>>, dataUri, _size)
     ELSE LET res == BufferDataUri(_type[1], buffer[1])
          IN IssueBuffer(call,
                         <<Ev("toString.base64", c, NULL, VBytes(buffer[1]), TRUE),
                           Ev("cb", c, NULL, VStr(res), TRUE)>>,
                         dataUri, _size)

\* DataMan.Buffer.prototype.getDataUri
BufferGetDataUri ==
  LET c == ncalls + 1
      call == SimpleCall("Buffer.getDataUri", TRUE)
  IN IF dataUri # None /\ dataUri[1] # <<>>
       THEN IssueBuffer(call, <<Ev("cb", c, NULL, VStr(dataUri[1]), TRUE)>>,
                        dataUri, _size)
     ELSE IF _type = None \/ _type = Some(<<>>)
       THEN IssueBuffer(call, <<Ev("cb", c, ErrNoType, VUndef, TRUE)>>, dataUri, _size)
     ELSE LET res == BufferDataUri(_type[1], buffer[1])
          IN IssueBuffer(call,
                         <<Ev("toString.base64", c, NULL, VBytes(buffer[1]), TRUE),
                           Ev("cb", c, NULL, VStr(res), TRUE)>>,
                         Some(res), _size)

\* DataMan.Buffer.prototype.size
BufferSize ==
  LET c == ncalls + 1
      call == SimpleCall("Buffer.size", TRUE)
  IN IF _size # None
       THEN IssueBuffer(call, <<Ev("cb", c, NULL, VInt(_size[1]), TRUE)>>,
                        dataUri, _size)
       ELSE IssueBuffer(call,
                        <<Ev("buffer.length", c, NULL, VInt(Len(buffer[1])), TRUE),
                          Ev("cb", c, NULL, VInt(Len(buffer[1])), TRUE)>>,
                        dataUri, Some(Len(buffer[1])))

\* DataMan.Buffer.prototype.type
BufferType ==
  IssueBuffer(SimpleCall("Buffer.type", FALSE),
              <<Ev("return", ncalls + 1, NULL,
                   IF _type = None THEN VUndef ELSE VStr(_type[1]), TRUE)>>,
              dataUri, _size)

\* what the free variable self of createReadStream evaluates to
ErrSelf == "ReferenceError: self is not defined"

\* DataMan.Buffer.prototype.createReadStream: the function declares no self.
\* Where nothing in scope is named self the reference throws; where the host
\* has a global of that name, its buffer property is read, which is not the
\* instance's buffer
BufferCreateReadStream ==
  \E global \in BOOLEAN :
    IssueBuffer(SimpleCall("Buffer.createReadStream", FALSE),
                IF global
                  THEN <<Ev("return", ncalls + 1, NULL,
                            [t |-> "stream", v |-> None], TRUE)>>
                  ELSE <<Ev("throw", ncalls + 1, ErrSelf, VUndef, TRUE)>>,
                dataUri, _size)

Next ==
  \/ Construct
  \/ ConstructBuffer
  \/ CallGetBlob
  \/ CallGetBinary
  \/ CallSaveAs
  \/ CallGetDataUri
  \/ CallSize
  \/ CallWithoutCallback
  \/ XhrLoad
  \/ XhrError
  \/ ReaderLoad
  \/ ReaderError
  \/ FileReaderLoad
  \/ FileReaderError
  \/ BufferGetBuffer
  \/ BufferGetDataUri
  \/ BufferSize
  \/ BufferType
  \/ BufferCreateReadStream

Spec == Init /\ [][Next]_vars

\* the constructor alone, on every input
NextCtor ==
  \/ ConstructAny
  \/ ConstructBuffer

SpecCtor == Init /\ [][NextCtor]_vars

\* getBinary with a byte range, over every range
NextRange ==
  \/ Construct
  \/ CallGetBinaryRange
  \/ XhrLoad
  \/ XhrError
  \/ ReaderLoad
  \/ ReaderError

SpecRange == Init /\ [][NextRange]_vars

\* new DataMan(data, type) for an instance made from a base64 data URI or, for
\* comparison, from a Blob or a URL
ConstructUri == ConstructFrom(UriArgs(env))

\* the accessors on instances made from data URIs
NextUri ==
  \/ ConstructUri
  \/ CallGetBlob
  \/ CallGetBinary
  \/ CallSaveAs
  \/ CallGetDataUri
  \/ CallSize
  \/ XhrLoad
  \/ XhrError
  \/ ReaderLoad
  \/ ReaderError
  \/ FileReaderLoad
  \/ FileReaderError

\* in a browser that has every capability the accessors use
InitUri == Init /\ env = Browser

SpecUri == InitUri /\ [][NextUri]_vars

-----------------------------------------------------------------------------
(* Properties *)

\* the positions in a step's events where an event of kind k stands
At(l, k) == {i \in 1..Len(l.ev) : l.ev[i].k = k}
Has(l, k) == At(l, k) # {}
IsRange(call) == call.op = "getBinary" /\ call.s = "number" /\ call.e = "number"

\* a step in which an accessor called getBlob after getBlob had passed a Blob
\* to some callback
LaterGetBlob == delivered # {} /\ Has(last', "getBlob")

\* C1 (as amended): once getBlob has passed a Blob to a callback, every later
\* getBlob call invokes its callback before it returns, with the Blob cached in
\* self.blob at that moment, and starts no data-URI decode and no HTTP fetch;
\* the cached Blob is replaced only by the load of an XMLHttpRequest that was
\* already in flight.
C1_LaterGetBlobServedFromCache ==
  [][ /\ LaterGetBlob =>
           /\ blob # None /\ blob' = blob
           /\ \E i \in At(last', "getBlob.callback") :
                /\ last'.ev[i].sync
                /\ last'.ev[i].e = NULL
                /\ last'.ev[i].r = VBlob(blob[1])
           /\ ~Has(last', "xhr.send") /\ ~Has(last', "dataURItoBlob")
           /\ {p \in pending' : p.prim = "xhr"} = {p \in pending : p.prim = "xhr"}
      /\ (blob # None /\ blob' # blob) =>
           /\ Has(last', "xhr.onload")
           /\ \E p \in pending : p.prim = "xhr" /\ p.c = last'.c
    ]_vars

\* C1 witness: on a URL instance whose fetch has loaded, a later call was
\* served from the cache before it returned
C1_Witness ==
  /\ url # None /\ loads # <<>> /\ last.c > loads[1]
  /\ \E i \in At(last, "getBlob.callback") : last.ev[i].sync /\ last.ev[i].e = NULL

\* C1 as stated: every later getBlob call gets the same Blob, the one getBlob
\* passed to a callback before.
C1_Original_SameHandleForEver ==
  [][ LaterGetBlob =>
        \E i \in At(last', "getBlob.callback") :
          /\ last'.ev[i].sync
          /\ last'.ev[i].e = NULL
          /\ \A h \in delivered : last'.ev[i].r.v[1].id = h
    ]_vars

\* C2: every getBlob call on a URL instance that has no Blob yet sends a
\* request of its own, each request's outcome goes to the callback of the call
\* that sent it, and self.blob is the response of the request that loaded last.
C2_IndependentFetchesLastWins ==
  /\ [](loads # <<>> => blob = Some(Response(loads[Len(loads)])))
  /\ [][ /\ (url # None /\ blob = None /\ Has(last', "getBlob")) =>
              /\ Has(last', "xhr.send")
              /\ ~(\E p \in pending : p.c = last'.c)
              /\ \E p \in pending' : p.c = last'.c /\ p.prim = "xhr"
              /\ pending \subseteq pending'
         /\ \A i \in At(last', "xhr.onload") :
              /\ last'.ev[i].r = VBlob(Response(last'.c))
              /\ last'.ev[i + 1].k = "getBlob.callback"
              /\ last'.ev[i + 1].c = last'.c
              /\ last'.ev[i + 1].e = NULL
              /\ last'.ev[i + 1].r = VBlob(Response(last'.c))
         /\ \A i \in At(last', "xhr.onerror") :
              /\ last'.ev[i + 1].k = "getBlob.callback"
              /\ last'.ev[i + 1].c = last'.c
              /\ last'.ev[i + 1].e = ErrXhr
       ]_vars

\* C2 witness: the request of the second call loaded first, the request of the
\* first call after it, and the first call's response is the one cached
C2_Witness ==
  /\ Len(loads) = 2 /\ loads[1] > loads[2]
  /\ blob = Some(Response(loads[2]))

\* C3: the callback passed to a call is invoked at most once, and each
\* invocation has either an error and no result or no error and a result.
C3_CallbackOnceErrorXorResult ==
  /\ \A c \in 1..Len(cbCount) : cbCount[c] <= 1
  /\ Cardinality(At(last, "cb")) <= 1
  /\ \A i \in At(last, "cb") :
       \/ last.ev[i].e # NULL /\ last.ev[i].r.t = "undefined"
       \/ last.ev[i].e = NULL /\ last.ev[i].r.t # "undefined"

\* C3 witness: a getBinary call whose callback got the read error, once, after
\* the fetch and the read
C3_Witness ==
  /\ last.call.op = "getBinary" /\ url # None
  /\ Has(last, "reader.onerror")
  /\ cbCount[last.c] = 1

\* C4 as stated: a fault found by the load or error handler of a request or of
\* a read goes to a callback's error slot and is never raised as an exception.
C4_Original_AsyncFaultNeverThrown ==
  (Has(last, "xhr.onerror") \/ Has(last, "reader.onerror")
     \/ Has(last, "fileReader.onerror"))
  => /\ ~Has(last, "throw")
     /\ \E i \in At(last, "cb") : last.ev[i].e # NULL

\* C5 as stated: a size(cb) call issued after a size call has completed passes
\* the same integer to its callback and does no I/O.
C5_Original_SecondSizeSameToCallback ==
  [][ (sizes # {} /\ last'.call.op \in {"size", "Buffer.size"} /\ last'.call.cb
         /\ Has(last', "call")) =>
        /\ \E i \in At(last', "cb") :
             /\ last'.ev[i].e = NULL
             /\ last'.ev[i].r.t = "int"
             /\ sizes = {last'.ev[i].r.v[1]}
        /\ ~Has(last', "getBlob") /\ ~Has(last', "xhr.send")
        /\ ~Has(last', "buffer.length")
        /\ pending' = pending
    ]_vars

\* the bytes of the instance's data
Total == Len(blob[1].bytes)

\* C6: getBinary(start, end, cb) with numbers start >= totalSize passes the
\* range error to cb, slices nothing, reads nothing and never passes data,
\* also when totalSize and start are both 0.
C6_StartBeyondEndFails ==
  /\ \A i \in At(last, "getBlob.callback") :
       (/\ IsRange(last.call) /\ last.call.cb
        /\ last.ev[i].e = NULL
        /\ last.call.start >= Len(last.ev[i].r.v[1].bytes))
       => /\ \E j \in At(last, "cb") :
               last.ev[j].e = ErrRange /\ last.ev[j].r.t = "undefined"
          /\ ~Has(last, "slice") /\ ~Has(last, "readAsArrayBuffer")
          /\ ~(\E p \in pending : p.c = last.c)
          /\ cbCount[last.c] = 1
  /\ \A j \in At(last, "cb") :
       (IsRange(last.call) /\ last.ev[j].e = NULL) => last.call.start < Total

\* C6 witness: getBinary(0, end, cb) on the empty Blob got the range error
C6_Witness ==
  /\ IsRange(last.call) /\ last.call.start = 0
  /\ blob # None /\ Total = 0
  /\ \E j \in At(last, "cb") : last.ev[j].e = ErrRange

\* the bytes a range call's callback was passed, if it was passed any
RangeData == {last.ev[j].r.v : j \in {i \in At(last, "cb") :
                                        IsRange(last.call) /\ last.ev[i].e = NULL}}

ArgData == arg[1][1]
ArgType == arg[1][2]
Accepted == phase = "live" /\ ~env.server
IsRaw == ArgData.kind \in {"ArrayBuffer", "Uint8Array"}
StartsWith(str, pre) == Len(str) >= Len(pre) /\ SubSeq(str, 1, Len(pre)) = pre
IsDataStr == ArgData.kind = "string" /\ StartsWith(ArgData.str, <<"d","a","t","a",":">>)
IsUrlStr ==
  /\ ArgData.kind = "string"
  /\ \/ StartsWith(ArgData.str, <<"h","t","t","p",":">>)
     \/ StartsWith(ArgData.str, <<"h","t","t","p","s",":">>)

\* the source field and, but for data URIs, the type the constructor stores
CtorStoresSource ==
  /\ Cardinality({f \in {blob, dataUri, url} : f # None}) = 1
  /\ ArgData.kind \in {"File", "Blob"} =>
       /\ blob = Some([id |-> <<"data", 0>>, bytes |-> ArgData.bytes,
                       type |-> ArgData.btype])
       /\ type = Some(ArgData.btype)
  /\ IsRaw => /\ blob # None /\ blob[1].bytes = ArgData.bytes
              /\ type = ArgType
  /\ IsDataStr => dataUri = Some(ArgData.str)
  /\ IsUrlStr => url = Some(ArgData.str) /\ type = ArgType

\* C8 as stated: the constructor sets exactly one of blob, dataUri and url by
\* the first rule that matches, and the type is the Blob's own, the type
\* argument for raw bytes and URLs, and for a data URI the text from position 5
\* to the ";" that follows.
C8_Original_CtorClassifies ==
  Accepted =>
    /\ CtorStoresSource
    /\ IsDataStr =>
         \E i \in 6..Len(ArgData.str) :
           /\ ArgData.str[i] = ";"
           /\ \A j \in 6..(i - 1) : ArgData.str[j] # ";"
           /\ type = Some(SubSeq(ArgData.str, 6, i - 1))

\* C9: the constructor throws "unrecognized data string" for a string that
\* starts with none of "data:", "http:", "https:" and "data that it doesn't
\* support" for a value that is no string, File, Blob, ArrayBuffer or binary;
\* nothing of the instance is set.
C9_CtorRejects ==
  (phase # "new" /\ ~env.server) =>
    LET rejected(err) ==
          /\ phase = "dead"
          /\ Len(last.ev) = 1
          /\ last.ev[1].k = "throw" /\ last.ev[1].e = err /\ last.ev[1].sync
          /\ blob = None /\ dataUri = None /\ url = None /\ type = None
    IN /\ (ArgData.kind = "string" /\ ~IsDataStr /\ ~IsUrlStr) => rejected(ErrUnrecognized)
       /\ ArgData.kind \notin {"string", "File", "Blob", "ArrayBuffer", "Uint8Array"}
            => rejected(ErrUnsupported)

\* C9 witness: new DataMan(<a number>) threw, and so did new DataMan("https/h")
C9_Witness ==
  /\ phase = "dead"
  /\ \/ ArgData.kind = "number" /\ last.ev[1].e = ErrUnsupported
     \/ ArgData.kind = "string" /\ ArgData.str = StrHttpx /\ last.ev[1].e = ErrUnrecognized

\* C10: when the request or the read an accessor started loads or fails, the
\* callback passed to that accessor is invoked with that outcome, in the
\* handler itself.
C10_OutcomeReachesCallback ==
  /\ \A i \in At(last, "xhr.onload") :
       /\ i < Len(last.ev)
       /\ last.ev[i + 1].k = "getBlob.callback" /\ last.ev[i + 1].e = NULL
       /\ last.ev[i + 1].r = last.ev[i].r
       /\ last.call.op = "getBlob" =>
            \E j \in At(last, "cb") : last.ev[j].e = NULL /\ last.ev[j].r = last.ev[i].r
  /\ \A i \in At(last, "xhr.onerror") :
       /\ i < Len(last.ev)
       /\ last.ev[i + 1].k = "getBlob.callback" /\ last.ev[i + 1].e = ErrXhr
       /\ last.call.op = "getBlob" => \E j \in At(last, "cb") : last.ev[j].e = ErrXhr
  /\ \A i \in At(last, "reader.onload") \cup At(last, "fileReader.onload") :
       (last.call.op = "getDataUri" \/ HasCallback(last.call)) =>
         \E j \in At(last, "cb") : last.ev[j].e = NULL /\ last.ev[j].r = last.ev[i].r
  /\ \A i \in At(last, "reader.onerror") \cup At(last, "fileReader.onerror") :
       (last.call.op = "getDataUri" \/ HasCallback(last.call)) =>
         \E j \in At(last, "cb") : last.ev[j].e = ErrReader
  /\ ({"xhr.onload", "xhr.onerror", "reader.onload", "reader.onerror",
        "fileReader.onload", "fileReader.onerror"} \cap {last.ev[i].k : i \in DOMAIN last.ev} # {}
      /\ (last.call.op \in {"getBlob", "getDataUri", "size"} \/ HasCallback(last.call)))
     => \/ cbCount[last.c] = 1
        \/ \E p \in pending : p.c = last.c /\ cbCount[last.c] = 0

\* C10 witness: the request of a getBlob call failed and its callback got the
\* error; the read of a getDataUri call loaded and its callback got the string
C10_Witness ==
  \/ /\ last.call.op = "getBlob" /\ Has(last, "xhr.onerror")
     /\ \E j \in At(last, "cb") : last.ev[j].e = ErrXhr
  \/ /\ last.call.op = "getDataUri" /\ Has(last, "fileReader.onload")
     /\ \E j \in At(last, "cb") : last.ev[j].e = NULL

\* C11 as stated: on an instance made from a Blob, raw bytes or a URL, once a
\* getDataUri call has completed successfully, a later getDataUri call passes
\* the cached string to its callback and does not start readAsDataURL again.
C11_Original_GetDataUriMemoized ==
  (/\ ~env.server /\ phase = "live" /\ ~IsDataStr
   /\ uris # {}
   /\ last.call.op = "getDataUri" /\ Has(last, "call"))
  => /\ ~Has(last, "readAsDataURL")
     /\ \E j \in At(last, "cb") : last.ev[j].e = NULL /\ last.ev[j].r = VStr(dataUri[1])

\* the bytes a data URI string encodes, and its type in lower case
UriBytes(str) == atob(SplitComma1(str)).bytes
UriType(str) ==
  LET t == StrSlice(str, 5, IndexOf(str, ";"))
  IN [i \in 1..Len(t) |-> ToLower(t[i])]

\* the Blob or URL the constructor stored is what the instance still holds
BlobOrUrlKept ==
  /\ ArgData.kind \in {"File", "Blob"} =>
       blob = Some([id |-> <<"data", 0>>, bytes |-> ArgData.bytes, type |-> ArgData.btype])
  /\ IsRaw => blob # None /\ blob[1].id = <<"new", 0>> /\ blob[1].bytes = ArgData.bytes
  /\ IsUrlStr => url = Some(ArgData.str)

EndedAtOnce(k, err) ==
  /\ Len(last.ev) = 2
  /\ last.ev[1].k = "call"
  /\ last.ev[2].k = k /\ last.ev[2].e = err /\ last.ev[2].sync
  /\ ~(\E p \in pending : p.c = last.c)

\* the constructor on raw bytes without Blob, and saveAs without window, throw
MissingBlobOrWindowThrown ==
  /\ (phase # "new" /\ ~env.server /\ IsRaw /\ ~env.Blob) =>
       /\ phase = "dead"
       /\ Len(last.ev) = 1
       /\ last.ev[1].k = "throw" /\ last.ev[1].e = ErrNoBlob /\ last.ev[1].sync
  /\ (last.call.op = "saveAs" /\ ~env.window) =>
       EndedAtOnce("throw", ErrNoWindow)

\* C14 (as amended): a host without Blob makes the constructor throw on raw
\* bytes and a host without window makes saveAs throw, both at once; a host
\* without FileReader makes getDataUri pass the error to its callback at once,
\* before getBlob, and return normally.
C14_MissingCapabilityAtOnce ==
  /\ MissingBlobOrWindowThrown
  /\ (last.call.op = "getDataUri" /\ last.call.cb /\ ~env.FileReader) =>
       /\ EndedAtOnce("cb", ErrNoFileReader)
       /\ cbCount[last.c] = 1

\* C14 witness: getDataUri(cb) in a host without FileReader
C14_Witness ==
  /\ last.call.op = "getDataUri" /\ last.call.cb /\ ~env.FileReader
  /\ \E j \in At(last, "cb") : last.ev[j].e = ErrNoFileReader

\* C14 as stated: each of the three missing capabilities is raised as an
\* exception and not passed to a callback.
C14_Original_MissingCapabilityThrown ==
  /\ MissingBlobOrWindowThrown
  /\ (last.call.op = "getDataUri" /\ last.call.cb /\ ~env.FileReader) =>
       /\ EndedAtOnce("throw", ErrNoFileReader)
       /\ ~Has(last, "cb")

\* C15 as stated: without the host's save-to-disk function (window.saveAs)
\* saveAs throws the unsupported-environment error before it asks for the
\* Blob; with it, saveAs gets the Blob from getBlob and calls window.saveAs
\* exactly once, with that Blob and the filename.
C15_Original_SaveAsNeedsCapability ==
  last.call.op = "saveAs" =>
    /\ ~env.saveAs => EndedAtOnce("throw", ErrNoWindow) /\ ~Has(last, "getBlob")
    /\ env.saveAs =>
         \A i \in At(last, "getBlob.callback") :
           last.ev[i].e = NULL =>
             /\ Cardinality(At(last, "window.saveAs")) = 1
             /\ \A j \in At(last, "window.saveAs") :
                  last.ev[j].r.v = <<last.ev[i].r.v[1], last.call.name>>

\* the instance has no type: none was given, or the empty string
TypeUnset == _type = None \/ _type = Some(<<>>)

\* str is "data:" + t + ";base64," + a padded base64 text that decodes to bytes
IsDataUriOf(str, t, bytes) ==
  LET head == <<"d","a","t","a",":">> \o t \o <<";","b","a","s","e","6","4",",">>
      n == Len(bytes)
  IN /\ StartsWith(str, head)
     /\ Len(str) = Len(head) + 4 * ((n + 2) \div 3)
     /\ \A i \in (Len(head) + 1)..Len(str) : IsB64(str[i]) \/ str[i] = "="
     /\ atob(Some(SubSeq(str, Len(head) + 1, Len(str)))) = [threw |-> FALSE, bytes |-> bytes]

\* the latest step is a call of DataMan.Buffer's getDataUri
IsBufferGetDataUri(l) == env.server /\ l.call.op = "Buffer.getDataUri"

\* C16: DataMan.Buffer's getDataUri passes the missing-type error to the
\* callback and leaves dataUri unset when the instance has no type; otherwise
\* it passes "data:<type>;base64,<base64 of the buffer>" and keeps it in
\* dataUri, and every later call passes that same string and encodes nothing.
C16_BufferGetDataUri ==
  /\ [](IsBufferGetDataUri(last) =>
          /\ Len(last.ev) >= 2 /\ cbCount[last.c] = 1
          /\ TypeUnset =>
               /\ EndedAtOnce("cb", ErrNoType)
               /\ dataUri = None
          /\ ~TypeUnset =>
               /\ \E j \in At(last, "cb") :
                    /\ last.ev[j].e = NULL /\ last.ev[j].r.t = "string"
                    /\ IsDataUriOf(last.ev[j].r.v, _type[1], buffer[1])
                    /\ dataUri = Some(last.ev[j].r.v)
               /\ ~Has(last, "throw"))
  /\ [][(IsBufferGetDataUri(last') /\ last'.c # last.c /\ dataUri # None) =>
          /\ dataUri' = dataUri
          /\ ~Has(last', "toString.base64")
          /\ \E j \in At(last', "cb") : last'.ev[j].r = VStr(dataUri[1])]_vars

\* C16 witness: the bytes 72 101 108 108 111 with type "t" were encoded by one
\* call, and a later call has passed the same string again
C16_Witness ==
  /\ IsBufferGetDataUri(last) /\ ~Has(last, "toString.base64")
  /\ buffer = Some(<<72, 101, 108, 108, 111>>)
  /\ \E j \in At(last, "cb") :
       last.ev[j].r = VStr(<<"d","a","t","a",":","t",";","b","a","s","e","6","4",",",
                             "S","G","V","s","b","G","8","=">>)

\* C17: whatever accessors were called since, the type of a client instance
\* is the one its constructor stored (the Blob's, the type argument, or the
\* text after "data:"), and the type of a DataMan.Buffer is the type argument.
C17_TypeNeverChanges ==
  phase = "live" =>
    IF env.server
      THEN _type = ArgType /\ type = None
      ELSE type = DataManCtor(env, ArgData, ArgType).type /\ _type = None

\* C17 witness: a URL instance has fetched a Blob of another type and has
\* encoded it as a data URI, and still has the type it was given
C17_Witness ==
  /\ phase = "live" /\ ~env.server /\ IsUrlStr
  /\ loads # <<>> /\ uris # {}
  /\ blob # None /\ blob[1].type = RemoteType
  /\ type = HintT /\ HintT # Some(RemoteType)

\* the strings a getDataUri call on an instance made from a data URI has
\* passed to its callback in the latest step
RoundTrip ==
  IF phase = "live" /\ ~env.server /\ IsDataStr /\ last.call.op = "getDataUri"
    THEN {last.ev[j].r.v : j \in {i \in At(last, "cb") : last.ev[i].e = NULL}}
    ELSE {}

C19_Original_StreamOverOwnBuffer ==
  (env.server /\ last.call.op = "Buffer.createReadStream") =>
    /\ ~Has(last, "throw")
    /\ \E j \in At(last, "return") :
         last.ev[j].r.t = "stream" /\ last.ev[j].r.v = buffer

====
